---- MODULE Spec2Model ----
(***************************************************************************)
(* EA_Summarizer.py: a sequential scrape / fetch / summarize loop over the *)
(* listing pages of a web site, a text cache keyed by detail URL, and a    *)
(* date-filtered table render.                                             *)
(*                                                                         *)
(* Texts are sequences of one-character strings, so that len(), lower(),   *)
(* strip() and the substring test are computed as the code computes them.  *)
(***************************************************************************)
EXTENDS Integers, Sequences, FiniteSets, TLC

VARIABLES
    pc,               \* position of main / fetch_executive_orders
    page,             \* fetch_executive_orders: page
    orders,           \* fetch_executive_orders: orders
    page_orders,      \* fetch_executive_orders: page_orders
    items,            \* items selected from the current listing page
    idx,              \* position of the for loop in items (1-based)
    order_text,       \* fetch_executive_orders: order_text (return of fetch_order_text)
    detail_soup,      \* fetch_order_text: the parsed detail page of the last download
    order_text_cache, \* module global order_text_cache
    shown,            \* what main has put on the dashboard
    table,            \* rows handed to st.dataframe
    date_filter,      \* value of st.date_input
    gets,             \* history: every requests.get issued, in order
    served,           \* history: the items of every listing page answered with 200
    summarized        \* history: the <<page, idx>> of every summarizer call

vars == <<pc, page, orders, page_orders, items, idx, order_text, detail_soup,
          order_text_cache, shown, table, date_filter, gets, served, summarized>>

\* Total number of listing items the site serves during one run.
MaxItems == 2

-----------------------------------------------------------------------------
(* Texts *)

EmptyText == << >>

UpperCase == <<"A","B","C","D","E","F","G","H","I","J","K","L","M",
               "N","O","P","Q","R","S","T","U","V","W","X","Y","Z">>
LowerCase == <<"a","b","c","d","e","f","g","h","i","j","k","l","m",
               "n","o","p","q","r","s","t","u","v","w","x","y","z">>

\* the lower-case letter of every upper-case letter
LowerOf ==
    [c \in {UpperCase[i] : i \in 1..Len(UpperCase)} |->
        LowerCase[CHOOSE i \in 1..Len(UpperCase) : UpperCase[i] = c]]

\* str.lower() on one character
LowerChar(c) == IF c \in DOMAIN LowerOf THEN LowerOf[c] ELSE c

\* str.lower()
Lower(s) == [i \in 1..Len(s) |-> LowerChar(s[i])]

\* needle in hay
Contains(needle, hay) ==
    \E i \in 0..(Len(hay) - Len(needle)) :
        SubSeq(hay, i + 1, i + Len(needle)) = needle

IsSpace(c) == c = " "

RECURSIVE LStrip(_)
LStrip(s) == IF s # << >> /\ IsSpace(Head(s)) THEN LStrip(Tail(s)) ELSE s

RECURSIVE RStrip(_)
RStrip(s) ==
    IF s # << >> /\ IsSpace(s[Len(s)]) THEN RStrip(SubSeq(s, 1, Len(s) - 1)) ELSE s

\* str.strip()
Strip(s) == RStrip(LStrip(s))

\* Tag.get_text(separator=" ", strip=True) over the text nodes of an element:
\* every node is stripped, empty nodes are dropped, the rest joined by " ".
RECURSIVE GetText(_)
GetText(nodes) ==
    IF nodes = << >> THEN EmptyText
    ELSE LET h == Strip(Head(nodes))
             r == GetText(Tail(nodes))
         IN  IF h = EmptyText THEN r
             ELSE IF r = EmptyText THEN h
             ELSE h \o <<" ">> \o r

RECURSIVE Flatten(_)
Flatten(ss) == IF ss = << >> THEN << >> ELSE Head(ss) \o Flatten(Tail(ss))

-----------------------------------------------------------------------------
(* fetch_order_text: choosing the text of a detail page *)

\* The length both thresholds of fetch_order_text compare against.
MinTextLen == 200

\* A parsed page is the sequence, in document order, of its elements; an
\* element is [sel, nodes]: the selector it matches and its text nodes.
selectors ==
    <<"article", "div.page-content", "main",
      "div.content-wrapper", "div.page__content", "div.entry-content">>

\* soup.find(tag, attrs): index of the first matching element, 0 for None
Find(soup, sel) ==
    IF \E i \in 1..Len(soup) : soup[i].sel = sel
    THEN CHOOSE i \in 1..Len(soup) :
             soup[i].sel = sel /\ \A j \in 1..(i - 1) : soup[j].sel # sel
    ELSE 0

\* soup.get_text(separator=" ", strip=True) of the whole document
PageText(soup) == GetText(Flatten([i \in 1..Len(soup) |-> soup[i].nodes]))

\* if len(order_text) > 200: break
LongEnough(t) == Len(t) > MinTextLen

\* if not order_text or len(order_text) < 200
NeedsFallback(t) == t = EmptyText \/ Len(t) < MinTextLen

\* the for loop over selectors, from selector k on, order_text being acc
RECURSIVE SelectorLoop(_, _, _)
SelectorLoop(soup, k, acc) ==
    IF k > Len(selectors) THEN acc
    ELSE LET c == Find(soup, selectors[k])
         IN  IF c = 0 THEN SelectorLoop(soup, k + 1, acc)
             ELSE LET t == GetText(soup[c].nodes)
                  IN  IF LongEnough(t) THEN t
                      ELSE SelectorLoop(soup, k + 1, t)

ExtractOrderText(soup) ==
    LET t == SelectorLoop(soup, 1, EmptyText)
    IN  IF NeedsFallback(t) THEN PageText(soup) ELSE t

\* the lookup that never finds the URL: every call downloads
CacheHitNever(url, cache) == FALSE

\* if url in order_text_cache
CacheHit(url, cache) == url \in DOMAIN cache

\* the store that rebinds the cache to the one new entry
CacheStoreAlone(cache, url, text) == [u \in {url} |-> text]

\* order_text_cache[url] = order_text
CacheStore(cache, url, text) ==
    [u \in (DOMAIN cache) \cup {url} |-> IF u = url THEN text ELSE cache[u]]

\* status_code != 200 is a failure
StatusOk(status) == status = "200"

-----------------------------------------------------------------------------
(* The site: what the requests of one run can be answered with *)

Fill(n) == [i \in 1..n |-> "x"]

WordMixed == <<"E","m","e","r","g","e","n","c","y">>
WordUpper == <<"E","M","E","R","G","E","N","C","Y">>
WordRoutine == <<"r","o","u","t","i","n","e">>
WordMenu == <<" ","M","e","n","u"," ">>

\* an article of more than MinTextLen characters that declares an emergency
PageLongArticle ==
    << [sel |-> "nav", nodes |-> <<WordMenu>>],
       [sel |-> "article",
        nodes |-> <<WordMixed, Fill(MinTextLen - Len(WordMixed))>>] >>

\* no container at all: a short body
PagePlain == << [sel |-> "p", nodes |-> <<WordRoutine, <<" ">>, WordMenu>>] >>

\* a banner and a main element of exactly MinTextLen characters
PageExactMain ==
    << [sel |-> "header", nodes |-> <<WordUpper>>],
       [sel |-> "main", nodes |-> <<Fill(MinTextLen)>>] >>

\* a document without text
PageEmpty == << >>

DetailPages == {PageLongArticle, PagePlain, PageExactMain, PageEmpty}

\* a detail request raises, is answered with an error status, or with a page
DetailResponses ==
    {[raises |-> TRUE, status |-> "none", soup |-> << >>],
     [raises |-> FALSE, status |-> "404", soup |-> << >>]}
    \cup {[raises |-> FALSE, status |-> "200", soup |-> p] : p \in DetailPages}

\* the datetime attribute of a <time> element
IsoA == [iso |-> TRUE, ymd |-> <<2025, 1, 25>>, hm |-> <<9, 30>>]
IsoB == [iso |-> TRUE, ymd |-> <<2025, 1, 10>>, hm |-> <<17, 0>>]
NotIso == [iso |-> FALSE, ymd |-> <<0, 0, 0>>, hm |-> <<0, 0>>]

Item(h2, a, title, link, tag, attr, dt) ==
    [h2 |-> h2, a |-> a, title |-> title, link |-> link,
     time |-> [tag |-> tag, attr |-> attr, datetime |-> dt]]

GoodItems ==
    {Item(TRUE, TRUE, "Order A", "/a", TRUE, TRUE, IsoA),
     Item(TRUE, TRUE, "Order B", "/b", TRUE, TRUE, IsoB)}

BadItems ==
    {Item(FALSE, FALSE, "", "", TRUE, TRUE, IsoA),
     Item(TRUE, FALSE, "", "", TRUE, TRUE, IsoA),
     Item(TRUE, TRUE, "Order C", "/a", FALSE, FALSE, NotIso),
     Item(TRUE, TRUE, "Order C", "/a", TRUE, FALSE, NotIso),
     Item(TRUE, TRUE, "Order C", "/a", TRUE, TRUE, NotIso)}

Items == GoodItems \cup BadItems

\* the non-empty item lists of at most n items
ItemLists(n) == UNION {[1..k -> Items] : k \in 1..n}

\* what the summarizer can answer when it does not raise
SummaryOutputs == {<<"s","u","m","m","a","r","y">>}

SummaryError ==
    <<"S","u","m","m","a","r","y"," ","g","e","n","e","r","a","t","i","o","n",
      " ","e","r","r","o","r",".">>

DefaultFilter == <<2025, 1, 20>>
FilterDates == {DefaultFilter, <<2025, 1, 25>>, <<2024, 12, 31>>}

-----------------------------------------------------------------------------
(* fetch_executive_orders: one listing item *)

HasTitleLink(item) == item.h2 /\ item.a

HasTime(item) == item.time.tag /\ item.time.attr

\* datetime.fromisoformat(s) raises on a string that is no ISO date
ParsesIso(dt) == dt.iso

\* datetime.fromisoformat(s).date(): the time of day is dropped
DateOf(dt) == dt.ymd

\* the item test without the checks of the <time> element
WellFormedNoTimeCheck(item) == item.h2 /\ item.a

\* the item reaches "Processing:" (no continue is taken)
WellFormed(item) ==
    HasTitleLink(item) /\ HasTime(item) /\ ParsesIso(item.time.datetime)

\* the literal "emergency"
Keyword == <<"e","m","e","r","g","e","n","c","y">>

\* the impact test without lower()
ImpactOfCaseSensitive(text) == IF Contains(Keyword, text) THEN "High" ELSE "Moderate"

\* "High" if "emergency" in order_text.lower() else "Moderate"
ImpactOf(text) == IF Contains(Keyword, Lower(text)) THEN "High" ELSE "Moderate"

OrderRecord(item, text, summary) ==
    [Date |-> DateOf(item.time.datetime), Title |-> item.title,
     Link |-> item.link, Summary |-> summary,
     Impact |-> ImpactOf(text), FullText |-> text]

\* the end-of-page test that never breaks
PageContributedAlways(po) == TRUE

\* if not page_orders: break
PageContributed(po) == po # << >>

\* orders = page_orders instead of extend
ExtendReplacing(os, po) == po

\* orders.extend(page_orders)
Extend(os, po) == os \o po

-----------------------------------------------------------------------------
(* main: the table *)

\* strictly after: > instead of >=
DateGT(a, b) ==
    \/ a[1] > b[1]
    \/ a[1] = b[1] /\ a[2] > b[2]
    \/ a[1] = b[1] /\ a[2] = b[2] /\ a[3] > b[3]

\* date comparison, on <<year, month, day>>
DateGE(a, b) ==
    \/ a[1] > b[1]
    \/ a[1] = b[1] /\ a[2] > b[2]
    \/ a[1] = b[1] /\ a[2] = b[2] /\ a[3] >= b[3]

\* df[df["Date"] >= date_filter]
FilterRows(rows, d) == SelectSeq(rows, LAMBDA r : DateGE(r.Date, d))

\* df_filtered[["Date", "Title", "Link", "Summary", "Impact"]]
Columns(r) ==
    [Date |-> r.Date, Title |-> r.Title, Link |-> r.Link,
     Summary |-> r.Summary, Impact |-> r.Impact]

TableOf(rows, d) ==
    LET f == FilterRows(rows, d) IN [i \in 1..Len(f) |-> Columns(f[i])]

-----------------------------------------------------------------------------
(* State machine *)

PageGet(n, ok) == [kind |-> "page", page |-> n, url |-> "", ok |-> ok]
DetailGet(url, ok) == [kind |-> "detail", page |-> 0, url |-> url, ok |-> ok]

\* listing items the site may still serve in this run
Remaining == MaxItems - Len(Flatten(served))

Init ==
    /\ pc = "main"
    /\ page = 0
    /\ orders = << >>
    /\ page_orders = << >>
    /\ items = << >>
    /\ idx = 0
    /\ order_text = EmptyText
    /\ detail_soup = << >>
    /\ order_text_cache = << >>
    /\ shown = "nothing"
    /\ table = << >>
    /\ date_filter = DefaultFilter
    /\ gets = << >>
    /\ served = << >>
    /\ summarized = << >>

\* main calls fetch_executive_orders: orders = [], page = 1
StartScrape ==
    /\ pc = "main"
    /\ pc' = "fetch_page"
    /\ page' = 1
    /\ orders' = << >>
    /\ UNCHANGED <<page_orders, items, idx, order_text, detail_soup,
                   order_text_cache, shown, table, date_filter, gets, served,
                   summarized>>

\* the head of the while loop: request the listing page and select its items
FetchPage ==
    /\ pc = "fetch_page"
    /\ \/ \* requests.get raises: nothing in fetch_executive_orders or main catches it
          /\ gets' = Append(gets, PageGet(page, FALSE))
          /\ pc' = "raised"
          /\ UNCHANGED <<page_orders, items, idx, served>>
       \/ \* status_code != 200: break
          /\ ~StatusOk("404")
          /\ gets' = Append(gets, PageGet(page, FALSE))
          /\ pc' = "returned"
          /\ UNCHANGED <<page_orders, items, idx, served>>
       \/ \* not items: break
          /\ StatusOk("200")
          /\ gets' = Append(gets, PageGet(page, TRUE))
          /\ served' = Append(served, << >>)
          /\ items' = << >>
          /\ pc' = "returned"
          /\ UNCHANGED <<page_orders, idx>>
       \/ \* page_orders = []; the for loop starts
          /\ StatusOk("200")
          /\ \E its \in ItemLists(Remaining) :
                /\ items' = its
                /\ served' = Append(served, its)
          /\ gets' = Append(gets, PageGet(page, TRUE))
          /\ page_orders' = << >>
          /\ idx' = 1
          /\ pc' = "item"
    /\ UNCHANGED <<page, orders, order_text, detail_soup, order_text_cache,
                   shown, table, date_filter, summarized>>

\* an item without heading, link or parseable datetime: continue
SkipItem ==
    /\ pc = "item"
    /\ idx <= Len(items)
    /\ ~WellFormed(items[idx])
    /\ idx' = idx + 1
    /\ UNCHANGED <<pc, page, orders, page_orders, items, order_text,
                   detail_soup, order_text_cache, shown, table, date_filter,
                   gets, served, summarized>>

\* order_text = fetch_order_text(link): the whole call
FetchOrderText ==
    /\ pc = "item"
    /\ idx <= Len(items)
    /\ WellFormed(items[idx])
    /\ LET url == items[idx].link IN
       \/ \* return order_text_cache[url]
          /\ CacheHit(url, order_text_cache)
          /\ order_text' = order_text_cache[url]
          /\ pc' = "cached"
          /\ UNCHANGED <<order_text_cache, gets, detail_soup>>
       \/ /\ ~CacheHit(url, order_text_cache)
          /\ \E r \in DetailResponses :
                IF r.raises
                THEN \* except Exception: return ""
                     /\ order_text' = EmptyText
                     /\ pc' = "failed"
                     /\ gets' = Append(gets, DetailGet(url, FALSE))
                     /\ UNCHANGED <<order_text_cache, detail_soup>>
                ELSE IF ~StatusOk(r.status)
                THEN \* status_code != 200: return ""
                     /\ order_text' = EmptyText
                     /\ pc' = "failed"
                     /\ gets' = Append(gets, DetailGet(url, FALSE))
                     /\ UNCHANGED <<order_text_cache, detail_soup>>
                ELSE \* the page is parsed, its text chosen, cached and returned
                     /\ detail_soup' = r.soup
                     /\ order_text' = ExtractOrderText(r.soup)
                     /\ order_text_cache' =
                            CacheStore(order_text_cache, url, ExtractOrderText(r.soup))
                     /\ pc' = "downloaded"
                     /\ gets' = Append(gets, DetailGet(url, TRUE))
    /\ UNCHANGED <<page, orders, page_orders, items, idx, shown, table,
                   date_filter, served, summarized>>

\* fetch_order_text has returned (from the cache, with "", or with a download)
AfterFetch == pc \in {"cached", "failed", "downloaded"}

\* the summarizer called whatever the text
ShouldSummarizeAlways(text) == TRUE

\* if order_text: call the summarizer
ShouldSummarize(text) == text # EmptyText

\* lines 121-139: summary, impact, page_orders.append
Summarize ==
    /\ AfterFetch
    /\ \/ /\ ShouldSummarize(order_text)
          /\ summarized' = Append(summarized, <<page, idx>>)
          /\ \/ \E s \in SummaryOutputs :
                   page_orders' =
                       Append(page_orders, OrderRecord(items[idx], order_text, s))
             \/ \* except Exception
                page_orders' =
                    Append(page_orders,
                           OrderRecord(items[idx], order_text, SummaryError))
       \/ /\ ~ShouldSummarize(order_text)
          /\ page_orders' =
                 Append(page_orders, OrderRecord(items[idx], order_text, EmptyText))
          /\ UNCHANGED summarized
    /\ idx' = idx + 1
    /\ pc' = "item"
    /\ UNCHANGED <<page, orders, items, order_text, detail_soup,
                   order_text_cache, shown, table, date_filter, gets, served>>

\* the for loop is over: break, or orders.extend(page_orders); page += 1
EndPage ==
    /\ pc = "item"
    /\ idx > Len(items)
    /\ IF PageContributed(page_orders)
       THEN /\ orders' = Extend(orders, page_orders)
            /\ page' = page + 1
            /\ pc' = "fetch_page"
       ELSE /\ pc' = "returned"
            /\ UNCHANGED <<orders, page>>
    /\ UNCHANGED <<page_orders, items, idx, order_text, detail_soup,
                   order_text_cache, shown, table, date_filter, gets, served,
                   summarized>>

\* main, after the scrape: the message or the filtered table
Render ==
    /\ pc = "returned"
    /\ IF orders = << >>
       THEN /\ shown' = "no_orders"
            /\ UNCHANGED <<table, date_filter>>
       ELSE \E d \in FilterDates :
                /\ date_filter' = d
                /\ table' = TableOf(orders, d)
                /\ shown' = "table"
    /\ pc' = "rendered"
    /\ UNCHANGED <<page, orders, page_orders, items, idx, order_text,
                   detail_soup, order_text_cache, gets, served, summarized>>

Next ==
    \/ StartScrape
    \/ FetchPage
    \/ SkipItem
    \/ FetchOrderText
    \/ Summarize
    \/ EndPage
    \/ Render

Spec == Init /\ [][Next]_vars

\* the script runs to its end: no step of it is postponed for ever
LiveSpec == Spec /\ WF_vars(Next)

-----------------------------------------------------------------------------
(* Vocabulary of the properties, stated without the operators of the model *)

DetailGets == SelectSeq(gets, LAMBDA g : g.kind = "detail")
PageGets == SelectSeq(gets, LAMBDA g : g.kind = "page")

\* every record built so far, in the order it was built
AllRecords == IF pc \in {"item", "cached", "failed", "downloaded"}
              THEN orders \o page_orders ELSE orders

\* the item has a title heading, a link and a parseable datetime
Complete(item) ==
    /\ item.h2 /\ item.a
    /\ item.time.tag /\ item.time.attr /\ item.time.datetime.iso

\* what a record takes from its listing item
Core(r) == <<r.Date, r.Title, r.Link>>
ItemCore(item) == <<item.time.datetime.ymd, item.title, item.link>>

\* the cores of the complete items of a list of items, in order
CompleteCores(its) ==
    LET c == SelectSeq(its, Complete) IN [i \in 1..Len(c) |-> ItemCore(c[i])]

Cores(rs) == [i \in 1..Len(rs) |-> Core(rs[i])]

IsPrefix(s, t) == Len(s) <= Len(t) /\ SubSeq(t, 1, Len(s)) = s

Scraped == pc \in {"returned", "rendered"}

-----------------------------------------------------------------------------
(* C1 *)

\* C1 as stated: no detail URL ever receives a second HTTP GET, failed
\* requests included.
C1_AtMostOneGetPerUrl ==
    \A i, j \in 1..Len(DetailGets) :
        i < j => DetailGets[i].url # DetailGets[j].url

\* C1, amended: no detail URL receives an HTTP GET after a GET of it has
\* succeeded; only a URL whose every earlier request failed is requested again.
C1_NoGetAfterSuccess ==
    \A i, j \in 1..Len(DetailGets) :
        (i < j /\ DetailGets[i].url = DetailGets[j].url) => ~DetailGets[i].ok

\* a call for a URL that was downloaded before has just returned from the cache
C1_Witness ==
    /\ pc = "cached"
    /\ \E i \in 1..Len(DetailGets) :
           DetailGets[i].url = items[idx].link /\ DetailGets[i].ok

-----------------------------------------------------------------------------
(* C2 *)

\* C2: when fetch_executive_orders has returned, the records are exactly the
\* complete items (title heading, link, parseable datetime) of the pages
\* served, one record each and in order, incomplete items giving none; a
\* failed detail fetch leaves Summary "" and a summarizer exception leaves
\* "Summary generation error.", the record being kept either way.
C2_OneRecordPerCompleteItem ==
    Scraped =>
        /\ Cores(orders) = CompleteCores(Flatten(served))
        /\ \A i \in 1..Len(orders) :
               /\ orders[i].FullText = EmptyText => orders[i].Summary = EmptyText
               /\ orders[i].FullText # EmptyText =>
                      orders[i].Summary \in SummaryOutputs \cup {SummaryError}

\* one page of two items: the summarizer raised on the first, the detail
\* request of the second failed, and both records are in the result
C2_Witness ==
    /\ pc = "returned"
    /\ Len(served) >= 1
    /\ Len(served[1]) = 2
    /\ Len(orders) = 2
    /\ orders[1].Summary = SummaryError
    /\ orders[2].FullText = EmptyText
    /\ \E i \in 1..Len(DetailGets) : ~DetailGets[i].ok

-----------------------------------------------------------------------------
(* C3 *)

\* the text contains "emergency", each letter in either case
HasEmergency(text) ==
    \E i \in 0..(Len(text) - Len(WordUpper)) :
        \A k \in 1..Len(WordUpper) :
            text[i + k] = WordUpper[k] \/ text[i + k] = Keyword[k]

\* C3: every record has Impact "High" exactly when its Full Text contains
\* "emergency" in any letter case, and "Moderate" otherwise; a record with
\* an empty Full Text has Impact "Moderate" and Summary "".
C3_ImpactIffEmergency ==
    \A i \in 1..Len(AllRecords) :
        LET r == AllRecords[i] IN
        /\ r.Impact = (IF HasEmergency(r.FullText) THEN "High" ELSE "Moderate")
        /\ r.FullText = EmptyText =>
               r.Impact = "Moderate" /\ r.Summary = EmptyText

\* a record rated High on a capitalised "Emergency" beside a record whose
\* detail fetch failed
C3_Witness ==
    /\ \E i \in 1..Len(AllRecords) :
           /\ AllRecords[i].Impact = "High"
           /\ \E k \in 1..Len(AllRecords[i].FullText) :
                  AllRecords[i].FullText[k] = "E"
    /\ \E i \in 1..Len(AllRecords) :
           AllRecords[i].FullText = EmptyText /\ AllRecords[i].Impact = "Moderate"
    /\ \E i \in 1..Len(DetailGets) : ~DetailGets[i].ok

-----------------------------------------------------------------------------
(* C4 *)

Range(s) == {s[i] : i \in 1..Len(s)}

\* C4: every summarizer call is the first one for its listing item, is made
\* for a complete (not skipped) item right after fetch_order_text returned
\* that item's text, and is made with a non-empty text, which is the text
\* the cache holds for the item's link.
C4_SummarizerOncePerFetchedItem ==
    [][summarized' # summarized =>
          /\ summarized' = Append(summarized, <<page, idx>>)
          /\ <<page, idx>> \notin Range(summarized)
          /\ pc \in {"cached", "downloaded"}
          /\ Complete(items[idx])
          /\ order_text # EmptyText
          /\ items[idx].link \in DOMAIN order_text_cache
          /\ order_text = order_text_cache[items[idx].link]
          /\ Len(page_orders') = Len(page_orders) + 1]_vars

\* a page of two items: the first was summarized, the second, whose text is
\* empty, was appended without a summarizer call
C4_Witness ==
    /\ pc = "item"
    /\ Len(page_orders) = 2
    /\ summarized = << <<page, 1>> >>
    /\ page_orders[2].FullText = EmptyText

-----------------------------------------------------------------------------
(* C5 *)

\* a date as one number, for comparison
DayNumber(d) == d[1] * 10000 + d[2] * 100 + d[3]

\* positions of the records dated on or after the filter date
Kept == {i \in 1..Len(orders) : DayNumber(orders[i].Date) >= DayNumber(date_filter)}

\* the k-th smallest element of Kept
KeptAt(k) == CHOOSE i \in Kept : Cardinality({j \in Kept : j < i}) = k - 1

\* C5: nothing is shown before the scrape has returned; then, with no
\* records, the message is shown and no table; otherwise the table holds
\* exactly the records dated on or after the filter date, in scrape order.
C5_TableIsFilteredOrders ==
    /\ pc # "rendered" => shown = "nothing" /\ table = << >>
    /\ pc = "rendered" =>
           IF orders = << >>
           THEN shown = "no_orders" /\ table = << >>
           ELSE /\ shown = "table"
                /\ Len(table) = Cardinality(Kept)
                /\ \A k \in 1..Len(table) :
                       LET r == orders[KeptAt(k)] IN
                       /\ table[k].Date = r.Date
                       /\ table[k].Title = r.Title
                       /\ table[k].Link = r.Link
                       /\ table[k].Summary = r.Summary
                       /\ table[k].Impact = r.Impact

\* two records scraped, the first filtered out, the second dated exactly the
\* filter date and shown
C5_Witness ==
    /\ pc = "rendered"
    /\ Len(orders) = 2
    /\ Len(table) = 1
    /\ table[1].Date = date_filter
    /\ table[1].Title = orders[2].Title
    /\ DayNumber(orders[1].Date) < DayNumber(date_filter)

-----------------------------------------------------------------------------
(* C6 *)

Last(s) == s[Len(s)]

\* the scrape cannot go on: the last listing request failed or brought no
\* items, the page just finished gave no record, or the function has left
C6_Stopped ==
    \/ pc \in {"returned", "rendered", "raised"}
    \/ PageGets # << >> /\ ~Last(PageGets).ok
    \/ served # << >> /\ Last(served) = << >>
    \/ pc = "item" /\ idx > Len(items) /\ page_orders = << >>

\* C6: the listing pages requested are 1, 2, 3, ... in this order, none
\* skipped and none twice; page n+1 is requested only when page n was
\* answered with items, every one of them has been processed and at least
\* one record came of them; and nothing at all is requested once the scrape
\* has stopped.
C6_ListingPagesInOrder ==
    /\ [](\A i \in 1..Len(PageGets) : PageGets[i].page = i)
    /\ [][(Len(PageGets') > Len(PageGets) /\ PageGets # << >>) =>
              /\ Last(PageGets).ok
              /\ Len(Last(served)) >= 1
              /\ items = Last(served)
              /\ idx = Len(items) + 1
              /\ page_orders # << >>
              /\ IsPrefix(Cores(page_orders), CompleteCores(items))
              /\ orders # << >>]_vars
    /\ [][C6_Stopped => gets' = gets]_vars

\* pages 1 and 2 gave a record each and page 3 has been requested
C6_Witness ==
    /\ Len(PageGets) = 3
    /\ Len(orders) = 2
    /\ Len(served) >= 2
    /\ Len(served[1]) = 1
    /\ Len(served[2]) = 1

-----------------------------------------------------------------------------
(* C7 *)

\* a step that is one whole call of fetch_order_text
IsFetchCall == pc = "item" /\ pc' \in {"cached", "failed", "downloaded"}

\* C7: a call of fetch_order_text changes nothing of the scrape but the
\* cache (and its own return value and request); a failed call returns ""
\* and leaves the cache as it is; a call for a cached URL returns the cached
\* text without a request and leaves the cache as it is; a successful
\* download adds the entry of the requested URL and changes no other; and
\* the cache changes in no other step.
C7_CacheFrame ==
    /\ [][IsFetchCall =>
            LET url == items[idx].link IN
            /\ UNCHANGED <<page, orders, page_orders, items, idx, shown, table,
                           date_filter, served, summarized>>
            /\ url \in DOMAIN order_text_cache <=> pc' = "cached"
            /\ pc' = "cached" =>
                   /\ order_text' = order_text_cache[url]
                   /\ gets' = gets
                   /\ order_text_cache' = order_text_cache
            /\ pc' = "failed" =>
                   /\ order_text' = EmptyText
                   /\ order_text_cache' = order_text_cache
                   /\ Len(gets') = Len(gets) + 1
                   /\ Last(gets').kind = "detail"
                   /\ Last(gets').url = url
                   /\ ~Last(gets').ok
            /\ pc' = "downloaded" =>
                   /\ DOMAIN order_text_cache' = DOMAIN order_text_cache \cup {url}
                   /\ Cardinality(DOMAIN order_text_cache') =
                          Cardinality(DOMAIN order_text_cache) + 1
                   /\ \A u \in DOMAIN order_text_cache :
                          order_text_cache'[u] = order_text_cache[u]
                   /\ order_text_cache'[url] = order_text'
                   /\ Len(gets') = Len(gets) + 1
                   /\ Last(gets').kind = "detail"
                   /\ Last(gets').url = url
                   /\ Last(gets').ok]_vars
    /\ [][order_text_cache' # order_text_cache => IsFetchCall /\ pc' = "downloaded"]_vars

\* the second URL has just been downloaded beside a cached first one
C7_Witness ==
    /\ pc = "downloaded"
    /\ Cardinality(DOMAIN order_text_cache) = 2

-----------------------------------------------------------------------------
(* C8 *)

\* the listing pages answered before the page the scrape stopped at
PagesBeforeStop == SubSeq(served, 1, page - 1)

\* C8: fetch_executive_orders ends (it returns, or a listing request raises);
\* when it returns, the result holds the records of the pages before the
\* stopping page, in page order and then item order; and the result only
\* ever grows at its end.
C8_TerminatesWithAccumulatedOrders ==
    /\ <>(pc \in {"returned", "raised"})
    /\ [](pc = "returned" =>
              /\ Len(served) >= page - 1
              /\ Cores(orders) = CompleteCores(Flatten(PagesBeforeStop))
              /\ \A i \in 1..(page - 1) : CompleteCores(served[i]) # << >>)
    /\ [][IsPrefix(orders, orders')]_vars

\* the scrape returned at page 3 with the records of pages 1 and 2
C8_Witness ==
    /\ pc = "returned"
    /\ page = 3
    /\ Len(orders) = 2
    /\ orders[1].Link # orders[2].Link

-----------------------------------------------------------------------------
(* C9 *)

\* the selectors, by priority, whose first element has a text longer than 200
LongContainers(soup) ==
    {k \in 1..Len(selectors) :
        /\ \E i \in 1..Len(soup) : soup[i].sel = selectors[k]
        /\ Len(GetText(soup[Find(soup, selectors[k])].nodes)) > 200}

\* the text C9 describes
ClaimedText(soup) ==
    IF LongContainers(soup) # {}
    THEN LET k == CHOOSE m \in LongContainers(soup) :
                      \A n \in LongContainers(soup) : m <= n
         IN  GetText(soup[Find(soup, selectors[k])].nodes)
    ELSE PageText(soup)

\* C9 as stated: a successful download returns the text of the first
\* container, by priority, longer than 200 characters, and the text of the
\* whole page when there is none.
C9_FirstLongContainerOrWholePage ==
    pc = "downloaded" => order_text = ClaimedText(detail_soup)

====
